---- MODULE Spec2Model ----
(***************************************************************************)
(* Model of the banner generators of this repository.                      *)
(*                                                                         *)
(*   src/banner/app.py          the form application: a Streamlit script   *)
(*                              that is re-run on every interaction        *)
(*   src/banchat/chatbot_app.py the chat application                       *)
(*                                                                         *)
(* A behaviour is one user session of one of the two applications (app).   *)
(* The rendering provider, the image host and the language model are the   *)
(* environment: every answer they can give is a choice with \E.            *)
(* A status response follows the provider's image object: it carries a     *)
(* `status`, and a `completed` one carries the image URL.                  *)
(***************************************************************************)
EXTENDS Integers, Sequences, FiniteSets, TLC

VARIABLES
    app,                  \* which application this session runs
    pc,                   \* position of the running script / handler
    templates_cache,      \* st.cache_data entry of fetch_all_bannerbear_templates
    analysis_cache,       \* st.cache_data entry of analyze_template_with_gemini
    selected_template_id, \* st.session_state.selected_template_id
    template_data,        \* st.session_state.template_data
    analysis_result,      \* st.session_state.analysis_result
    modifications,        \* the list built by the customization form
    generation_response,  \* what generate_bannerbear_image returned
    image_uid,            \* argument of poll_for_image_completion
    fetches,              \* status-fetch requests issued by the current poll
    sleeps,               \* time.sleep(2) calls of the current poll
    final_image_url,      \* what poll_for_image_completion returned
    shown,                \* st.* outputs of the current script run
    submitCalls,          \* invocations of generate_bannerbear_image
    createRequests,       \* POST /v2/images requests that left the client
    jobsCreated,          \* jobs the provider created (uids handed out)
    sentPayload,          \* payload of the job-creation call of this run
    lastArgs,             \* arguments of the latest generate_bannerbear_image
    dupSubmit,            \* some invocation repeated the arguments before it
    genOutcome,           \* what the provider did with the latest creation
    firstEnd,             \* first status response that was terminal or an error
    completedSeen,        \* some status response of this poll said `completed`
    terminalJobs,         \* uids for which completed/failed has been observed
    failures,             \* the failed exits of the poll calls so far
    ownSelections,        \* template ids this session has selected so far
    selected_template_details, \* st.session_state.selected_template_details
    current_modifications,     \* st.session_state.current_modifications
    modsAliased,          \* the dicts of current_modifications are the very
                          \* objects of selected_template_details
    download_image,       \* st.session_state.download_image
    download_buttons,     \* the DOWNLOAD_BUTTON messages of st.session_state.messages,
                          \* each by the uid of the image announced before it
    picker,               \* a template_picker message is in st.session_state.messages
    pollArg,              \* the job the latest chat handler called poll_for_image for
    appended              \* messages the latest chat handler appended

cacheVars == <<templates_cache, analysis_cache>>

sessionVars == <<selected_template_id, template_data, analysis_result>>

\* The locals of a script run of the form application.
runVars == <<modifications, generation_response, image_uid, fetches, sleeps,
             final_image_url, genOutcome, firstEnd, completedSeen>>

\* What the session has done so far.
histVars == <<submitCalls, createRequests, jobsCreated, lastArgs, dupSubmit,
              terminalJobs, failures>>

formVars == <<cacheVars, sessionVars, runVars, shown>>

chatVars == <<selected_template_details, current_modifications, modsAliased,
              download_image, download_buttons, picker, pollArg, appended>>

vars == <<app, pc, formVars, histVars, ownSelections, sentPayload, chatVars>>

\* Python None / JSON null, and a key that a dict does not have.
Null == "null"
Absent == "absent"

\* None where the value is otherwise a dict or a list.
None == [none |-> TRUE]

\* for _ in range(20)
MaxAttempts == 20

\* Bound of the model: job-creation calls in one session.
MaxSubmits == 2

(***************************************************************************)
(* The provider's project: two templates, their layers.                    *)
(***************************************************************************)
TemplateIds == {"t1", "t2"}

Urls == {"png_a", "png_b"}

TemplateLayers(t) ==
    IF t = "t1"
    THEN << [name |-> "title", kind |-> "text"],
            [name |-> "shape", kind |-> "other"] >>
    ELSE << [name |-> "title", kind |-> "text"],
            [name |-> "logo", kind |-> "image"] >>

\* A dict of a modifications list: every key is a value, null, or not there.
Mod(n, t, i, c) == [name |-> n, text |-> t, image_url |-> i, color |-> c]

ModKeys == {"name", "text", "image_url", "color"}

\* One entry of `available_modifications` as the provider lists it.
LayerInfo(l) ==
    CASE l.kind = "text" -> Mod(l.name, Null, Absent, Null)
      [] l.kind = "image" -> Mod(l.name, Absent, Null, Absent)
      [] OTHER -> Mod(l.name, Absent, Absent, Null)

\* GET /v2/templates/{uid}
TemplateDetails(t) ==
    [uid |-> t,
     available_modifications |->
        [i \in 1..Len(TemplateLayers(t)) |-> LayerInfo(TemplateLayers(t)[i])]]

\* What the language model answers for a template: its text and image layers.
Analysis(t) ==
    LET IsText(l) == l.kind = "text"
        IsImage(l) == l.kind = "image"
        Names(s) == [i \in 1..Len(s) |-> s[i].name]
    IN [text_fields |-> Names(SelectSeq(TemplateLayers(t), IsText)),
        image_fields |-> Names(SelectSeq(TemplateLayers(t), IsImage))]

(***************************************************************************)
(* The form application, src/banner/app.py                                 *)
(***************************************************************************)

\* What GET /v2/templates can give: an error (None is returned, and cached),
\* an empty project, the list of the project's templates.
ListAnswers == {"failed", "nolist", "list"}

\* @st.cache_data: within the ttl the stored return value is served.
fetch_all_bannerbear_templates(cache, answer) ==
    IF cache = "empty" THEN answer ELSE cache

\* GET /v2/templates/{template_id}: the details, or None after st.error.
fetch_bannerbear_template_details(template_id, answer) ==
    IF answer = "ok" THEN TemplateDetails(template_id) ELSE None

NoEntry == [empty |-> TRUE]

\* @st.cache_data on a function whose only parameter, _template_data_str, starts
\* with an underscore: the parameter is not part of the cache key.
analyze_template_with_gemini(cache, template_data_str, answer) ==
    IF cache # NoEntry THEN cache
    ELSE IF answer = "ok" THEN Analysis(template_data_str.uid) ELSE None

TextInputs == {"", "Sale"}
UploadOutcomes == {"none", "ok", "fail"}
HostUrl == "hosted_url"

\* The loops of the customization form: a text field is appended when its input
\* is not empty, an image field when its upload succeeded.
FormModifications(analysis, texts, uploads) ==
    LET tf == analysis.text_fields
        imf == analysis.image_fields
        T[i \in 0..Len(tf)] ==
            IF i = 0 THEN << >>
            ELSE IF texts[tf[i]] # ""
                 THEN Append(T[i-1], Mod(tf[i], texts[tf[i]], Absent, Absent))
                 ELSE T[i-1]
        I[i \in 0..Len(imf)] ==
            IF i = 0 THEN T[Len(tf)]
            ELSE IF uploads[imf[i]] = "ok"
                 THEN Append(I[i-1], Mod(imf[i], Absent, HostUrl, Absent))
                 ELSE I[i-1]
    IN I[Len(imf)]

Range(s) == {s[i] : i \in 1..Len(s)}

NoEnd == [at |-> 0, kind |-> "none", url |-> Null]

\* ttl=3600 of the two caches.
ExpireCache ==
    /\ app = "form"
    /\ pc = "idle"
    /\ \/ templates_cache # "empty" /\ templates_cache' = "empty"
          /\ UNCHANGED analysis_cache
       \/ analysis_cache # NoEntry /\ analysis_cache' = NoEntry
          /\ UNCHANGED templates_cache
    /\ UNCHANGED <<app, ownSelections, pc, sessionVars, runVars, shown, histVars, sentPayload,
                   chatVars>>

\* A script run after the user picked template t in the sidebar.
RunSelect(t) ==
    /\ app = "form"
    /\ pc = "idle"
    /\ \E la \in ListAnswers, da \in {"ok", "fail"}, aa \in {"ok", "fail"} :
        LET all_templates == fetch_all_bannerbear_templates(templates_cache, la)
            changed == all_templates = "list" /\ t # selected_template_id
            data == fetch_bannerbear_template_details(t, da)
            analysis == analyze_template_with_gemini(analysis_cache, data, aa)
        IN /\ templates_cache' = all_templates
           /\ selected_template_id' = IF changed THEN t ELSE selected_template_id
           /\ template_data' = IF changed THEN data ELSE template_data
           /\ analysis_result' =
                IF changed /\ data # None THEN analysis ELSE analysis_result
           /\ analysis_cache' =
                IF changed /\ data # None THEN analysis ELSE analysis_cache
           /\ shown' = IF all_templates # "list" THEN {"warn_notemplates"} ELSE {}
           /\ ownSelections' =
                IF changed THEN ownSelections \cup {t} ELSE ownSelections
    /\ pc' = "done"
    /\ UNCHANGED <<app, runVars, histVars, sentPayload, chatVars>>

\* A script run of another session of the same server process: it lists the
\* templates and, when its user has picked template u, fetches and analyses
\* it. Its st.session_state is its own; the two st.cache_data entries are the
\* ones this session reads at the start of its next run.
PeerRun(u) ==
    /\ app = "form"
    /\ pc = "idle"
    /\ \E la \in ListAnswers, da \in {"ok", "fail"}, aa \in {"ok", "fail"} :
        LET all_templates == fetch_all_bannerbear_templates(templates_cache, la)
            data == fetch_bannerbear_template_details(u, da)
            analysis == analyze_template_with_gemini(analysis_cache, data, aa)
        IN /\ templates_cache' = all_templates
           /\ analysis_cache' =
                IF all_templates = "list" /\ data # None
                THEN analysis ELSE analysis_cache
    /\ UNCHANGED <<app, ownSelections, pc, sessionVars, runVars, shown, histVars,
                   sentPayload, chatVars>>

\* A script run after the user pressed "Generate Image" in the form.
RunSubmit ==
    /\ app = "form"
    /\ pc = "idle"
    /\ analysis_result # None
    /\ submitCalls < MaxSubmits
    /\ \E la \in ListAnswers,
          texts \in [Range(analysis_result.text_fields) -> TextInputs],
          uploads \in [Range(analysis_result.image_fields) -> UploadOutcomes] :
        LET mods == FormModifications(analysis_result, texts, uploads)
        IN /\ templates_cache' = fetch_all_bannerbear_templates(templates_cache, la)
           /\ modifications' = mods
           /\ IF mods = << >>
              THEN shown' = {"warn_nochange"} /\ pc' = "done"
              ELSE shown' = {"info_sending"} /\ pc' = "generate"
    /\ UNCHANGED <<app, ownSelections, analysis_cache, sessionVars, generation_response,
                   image_uid, fetches, sleeps, final_image_url, genOutcome,
                   firstEnd, completedSeen, histVars, sentPayload, chatVars>>

\* A core that forgets the analysis when it is called.
CoreClearsAnalysis ==
    /\ analysis_result' = None
    /\ UNCHANGED <<selected_template_id, template_data>>

\* generate_bannerbear_image and poll_for_image_completion work on their
\* parameters only: st.session_state does not occur in them.
CoreSessionEffect == UNCHANGED sessionVars

\* What POST /v2/images can give: no connection, a non-2xx status, a 2xx body with
\* the job's uid, a 2xx body without it, an empty 2xx body.
CreateAnswers == {"network", "http_error", "ok", "no_uid", "empty_body"}

\* A generate_bannerbear_image that sends the request again after a failure.
GenerateRetrying(answer, uid) ==
    CASE answer \in {"network", "http_error"} ->
            [requests |-> 2, notice |-> {"err_generate"}, response |-> None]
      [] answer = "ok" ->
            [requests |-> 1, notice |-> {},
             response |-> [uid |-> uid, empty |-> FALSE]]
      [] answer = "no_uid" ->
            [requests |-> 1, notice |-> {},
             response |-> [uid |-> 0, empty |-> FALSE]]
      [] OTHER ->
            [requests |-> 1, notice |-> {},
             response |-> [uid |-> 0, empty |-> TRUE]]

\* A generate_bannerbear_image that answers a failed request with a job all
\* the same.
GenerateIgnoringFailure(answer, uid) ==
    CASE answer \in {"network", "http_error"} ->
            [requests |-> 1, notice |-> {"err_generate"},
             response |-> [uid |-> uid, empty |-> FALSE]]
      [] answer = "ok" ->
            [requests |-> 1, notice |-> {},
             response |-> [uid |-> uid, empty |-> FALSE]]
      [] answer = "no_uid" ->
            [requests |-> 1, notice |-> {},
             response |-> [uid |-> 0, empty |-> FALSE]]
      [] OTHER ->
            [requests |-> 1, notice |-> {},
             response |-> [uid |-> 0, empty |-> TRUE]]

\* generate_bannerbear_image: one POST; the body of a 2xx answer is returned as
\* it is, any RequestException gives st.error and None. uid 0: no "uid" key.
generate_bannerbear_image(answer, uid) ==
    CASE answer \in {"network", "http_error"} ->
            [requests |-> 1, notice |-> {"err_generate"}, response |-> None]
      [] answer = "ok" ->
            [requests |-> 1, notice |-> {},
             response |-> [uid |-> uid, empty |-> FALSE]]
      [] answer = "no_uid" ->
            [requests |-> 1, notice |-> {},
             response |-> [uid |-> 0, empty |-> FALSE]]
      [] OTHER ->
            [requests |-> 1, notice |-> {},
             response |-> [uid |-> 0, empty |-> TRUE]]

\* `if generation_response:` None and {} are falsy.
Truthy(response) == response # None /\ ~response.empty

\* The submitted branch: generate_bannerbear_image, then generation_response["uid"]
\* (KeyError when the key is missing) and the call of poll_for_image_completion.
Generate ==
    /\ app = "form"
    /\ pc = "generate"
    /\ \E answer \in CreateAnswers :
        LET g == generate_bannerbear_image(answer, jobsCreated + 1)
            payload == [template |-> selected_template_id,
                        modifications |-> modifications]
        IN /\ submitCalls' = submitCalls + 1
           /\ createRequests' = createRequests + g.requests
           /\ jobsCreated' = IF answer = "ok" THEN jobsCreated + 1 ELSE jobsCreated
           /\ sentPayload' = payload
           /\ lastArgs' = payload
           /\ dupSubmit' = (dupSubmit \/ lastArgs = payload)
           /\ genOutcome' = answer
           /\ generation_response' = g.response
           /\ IF ~Truthy(g.response)
              THEN /\ pc' = "done"
                   /\ shown' = shown \cup g.notice
                   /\ image_uid' = image_uid
              ELSE IF g.response.uid = 0
              THEN /\ pc' = "done"
                   /\ shown' = shown \cup {"exception_KeyError"}
                   /\ image_uid' = image_uid
              ELSE /\ pc' = "poll"
                   /\ shown' = shown \cup g.notice
                   /\ image_uid' = g.response.uid
    /\ CoreSessionEffect
    /\ UNCHANGED <<app, ownSelections, cacheVars, modifications, fetches, sleeps,
                   final_image_url, firstEnd, completedSeen, terminalJobs,
                   failures, chatVars>>

\* What GET /v2/images/{uid} can give.
TransportErrors == {"network", "http_error"}

StatusResponses ==
    {[kind |-> k, url |-> Null] :
        k \in {"pending", "processing", "failed"} \cup TransportErrors}
    \cup {[kind |-> "completed", url |-> u] : u \in Urls}

\* A loop that runs once more than range(20).
LoopContinuesOnceMore(n) == n <= MaxAttempts

\* for _ in range(20)
LoopContinues(n) == n < MaxAttempts

PollReturn(value, notice) ==
    [return |-> TRUE, value |-> value, notice |-> notice, sleep |-> 0]

PollSleep == [return |-> FALSE, value |-> Null, notice |-> {}, sleep |-> 1]

\* Variants of the loop body with one fault each: the URL read under a wrong key,
\* `completed` not tested, `failed` not tested, a request exception that is
\* swallowed and retried, `failed` reported with the message of the except
\* branch.
PollHandleWrongKey(r) ==
    CASE r.kind \in TransportErrors -> PollReturn(Null, {"err_polling"})
      [] r.kind = "completed" -> PollReturn(Null, {})
      [] r.kind = "failed" -> PollReturn(Null, {"err_failed"})
      [] OTHER -> PollSleep

PollHandleIgnoreCompleted(r) ==
    CASE r.kind \in TransportErrors -> PollReturn(Null, {"err_polling"})
      [] r.kind = "failed" -> PollReturn(Null, {"err_failed"})
      [] OTHER -> PollSleep

PollHandleIgnoreFailed(r) ==
    CASE r.kind \in TransportErrors -> PollReturn(Null, {"err_polling"})
      [] r.kind = "completed" -> PollReturn(r.url, {})
      [] OTHER -> PollSleep

PollHandleRetryTransport(r) ==
    CASE r.kind = "completed" -> PollReturn(r.url, {})
      [] r.kind = "failed" -> PollReturn(Null, {"err_failed"})
      [] OTHER -> PollSleep

PollHandleSameNotice(r) ==
    CASE r.kind \in TransportErrors -> PollReturn(Null, {"err_polling"})
      [] r.kind = "completed" -> PollReturn(r.url, {})
      [] r.kind = "failed" -> PollReturn(Null, {"err_polling"})
      [] OTHER -> PollSleep

\* The body of the polling loop for one response: does the function return,
\* with what, which message does it show, does it sleep.
PollHandle(r) ==
    CASE r.kind \in TransportErrors -> PollReturn(Null, {"err_polling"})
      [] r.kind = "completed" -> PollReturn(r.url, {})
      [] r.kind = "failed" -> PollReturn(Null, {"err_failed"})
      [] OTHER -> PollSleep

\* How a poll call ends, as the provider's answers decide it.
ExitOf(r) == IF r.kind \in TransportErrors THEN "transport" ELSE r.kind

\* One iteration of the loop of poll_for_image_completion.
PollFetch ==
    /\ app = "form"
    /\ pc = "poll"
    /\ LoopContinues(fetches)
    /\ \E r \in StatusResponses :
        LET h == PollHandle(r)
        IN /\ fetches' = fetches + 1
           /\ firstEnd' =
                IF firstEnd.at = 0 /\ r.kind \notin {"pending", "processing"}
                THEN [at |-> fetches + 1, kind |-> ExitOf(r), url |-> r.url]
                ELSE firstEnd
           /\ completedSeen' = (completedSeen \/ r.kind = "completed")
           /\ terminalJobs' =
                IF r.kind \in {"completed", "failed"}
                THEN terminalJobs \cup {image_uid} ELSE terminalJobs
           /\ sleeps' = sleeps + h.sleep
           /\ shown' = shown \cup h.notice
           /\ IF h.return
              THEN /\ pc' = "polled"
                   /\ final_image_url' = h.value
                   /\ failures' =
                        IF r.kind = "completed" THEN failures
                        ELSE failures \cup {[exit |-> ExitOf(r), value |-> h.value,
                                             notice |-> h.notice]}
              ELSE UNCHANGED <<pc, final_image_url, failures>>
    /\ CoreSessionEffect
    /\ UNCHANGED <<app, ownSelections, cacheVars, modifications, generation_response,
                   image_uid, genOutcome, submitCalls, createRequests,
                   jobsCreated, lastArgs, dupSubmit, sentPayload, chatVars>>

\* After the loop: st.warning and return None.
PollGiveUp ==
    /\ app = "form"
    /\ pc = "poll"
    /\ ~LoopContinues(fetches)
    /\ pc' = "polled"
    /\ final_image_url' = Null
    /\ shown' = shown \cup {"warn_longer"}
    /\ failures' = failures \cup {[exit |-> "exhausted", value |-> Null,
                                     notice |-> {"warn_longer"}]}
    /\ CoreSessionEffect
    /\ UNCHANGED <<app, ownSelections, cacheVars, modifications, generation_response,
                   image_uid, fetches, sleeps, genOutcome, firstEnd,
                   completedSeen, submitCalls, createRequests, jobsCreated, lastArgs,
                   dupSubmit, terminalJobs, sentPayload, chatVars>>

\* `if final_image_url:` the caller draws the banner, or nothing.
ShowResult ==
    /\ app = "form"
    /\ pc = "polled"
    /\ pc' = "done"
    /\ shown' = IF final_image_url # Null
                THEN shown \cup {"image", "success"} ELSE shown
    /\ UNCHANGED <<app, ownSelections, cacheVars, sessionVars, runVars, histVars, sentPayload,
                   chatVars>>

\* The script run is over: its locals are gone, the session waits for the
\* next interaction.
EndRun ==
    /\ app = "form"
    /\ pc = "done"
    /\ pc' = "idle"
    /\ modifications' = << >>
    /\ generation_response' = None
    /\ image_uid' = 0
    /\ fetches' = 0
    /\ sleeps' = 0
    /\ final_image_url' = Null
    /\ genOutcome' = "none"
    /\ firstEnd' = NoEnd
    /\ completedSeen' = FALSE
    /\ shown' = {}
    /\ sentPayload' = None
    /\ UNCHANGED <<app, ownSelections, cacheVars, sessionVars, histVars, chatVars>>

(***************************************************************************)
(* The chat application, src/banchat/chatbot_app.py                        *)
(* bannerbear_helpers.py (list_templates, get_template_details,            *)
(* create_image, poll_for_image) is not part of the sources: those four    *)
(* are modelled by their results.                                          *)
(***************************************************************************)

\* What the detail fetch can give: nothing, the details, details without the
\* `available_modifications` key, details whose second layer has no `name`.
DetailAnswers == {"fail", "ok", "no_layers_key", "no_name"}

get_template_details(t, answer) ==
    LET d == TemplateDetails(t)
        layers == d.available_modifications
    IN CASE answer = "fail" -> None
         [] answer = "ok" -> d
         [] answer = "no_layers_key" -> [uid |-> t]
         [] OTHER ->
              [d EXCEPT !.available_modifications =
                  [i \in 1..Len(layers) |->
                      IF i = 2 THEN [layers[i] EXCEPT !.name = Absent]
                      ELSE layers[i]]]

\* The try block of handle_template_selection: KeyError when the key
\* `available_modifications` or a layer's `name` is missing; otherwise the
\* layer dicts themselves are the new modifications.
CollectLayers(full) ==
    IF "available_modifications" \notin DOMAIN full
    THEN [ok |-> FALSE, modifications |-> << >>]
    ELSE IF \E i \in 1..Len(full.available_modifications) :
                full.available_modifications[i].name = Absent
    THEN [ok |-> FALSE, modifications |-> << >>]
    ELSE [ok |-> TRUE, modifications |-> full.available_modifications]

\* process_prompt, command "choose template"
ChooseTemplate ==
    /\ app = "chat"
    /\ \E answer \in {"ok", "fail"} :
        IF answer = "ok"
        THEN picker' = TRUE /\ appended' = <<"user", "template_picker">>
        ELSE picker' = picker /\ appended' = <<"user", "sorry_templates">>
    /\ sentPayload' = None
    /\ pollArg' = None
    /\ UNCHANGED <<app, ownSelections, pc, formVars, histVars, selected_template_details,
                   current_modifications, modsAliased, download_image,
                   download_buttons>>

\* handle_template_selection, the on_click of a picker's Select button
HandleTemplateSelection(t) ==
    /\ app = "chat"
    /\ picker
    /\ picker' = FALSE
    /\ \E answer \in DetailAnswers :
        LET full == get_template_details(t, answer)
            c == CollectLayers(full)
        IN IF full = None
           THEN /\ appended' = <<"user", "sorry_details">>
                /\ UNCHANGED <<selected_template_details, current_modifications,
                               modsAliased>>
           ELSE /\ selected_template_details' = full
                /\ IF c.ok
                   THEN /\ current_modifications' = c.modifications
                        /\ modsAliased' = TRUE
                        /\ appended' = <<"user", "success_loaded">>
                   ELSE /\ current_modifications' = current_modifications
                        /\ modsAliased' = FALSE
                        /\ appended' = <<"user", "critical_error">>
    /\ sentPayload' = None
    /\ pollArg' = None
    /\ UNCHANGED <<app, ownSelections, pc, formVars, histVars, download_image,
                   download_buttons>>

\* The arguments of an update_modifications call of the language model.
NewTexts == {"Hi"}
NewImages == {"img_x"}

FunctionCallArgs ==
    [layer_name : {"title", "shape", "logo", "nosuch", Absent},
     new_text : NewTexts \cup {Absent},
     new_image_url : NewImages \cup {Absent}]

\* function_call.args.get("layer_name")
ArgLayerName(args) == IF args.layer_name = Absent THEN Null ELSE args.layer_name

\* A search that settles for the first dict when no name matches.
FirstMatchOrFirst(mods, layer_name) ==
    IF \E i \in 1..Len(mods) : mods[i].name = layer_name
    THEN CHOOSE i \in 1..Len(mods) :
            /\ mods[i].name = layer_name
            /\ \A j \in 1..(i-1) : mods[j].name # layer_name
    ELSE IF Len(mods) > 0 THEN 1 ELSE 0

\* Index of the first modification named layer_name, 0 when there is none.
FirstMatch(mods, layer_name) ==
    IF \E i \in 1..Len(mods) : mods[i].name = layer_name
    THEN CHOOSE i \in 1..Len(mods) :
            /\ mods[i].name = layer_name
            /\ \A j \in 1..(i-1) : mods[j].name # layer_name
    ELSE 0

\* The if/elif of handle_gemini_function_call on the matching dict.
UpdateMod(mod, args) ==
    IF args.new_text # Absent THEN [mod EXCEPT !.text = args.new_text]
    ELSE IF args.new_image_url # Absent
    THEN [mod EXCEPT !.image_url = args.new_image_url]
    ELSE mod

\* handle_gemini_function_call: the dict is changed in place, so the change
\* is seen through every list that holds it.
HandleGeminiFunctionCall(args) ==
    /\ app = "chat"
    /\ LET i == FirstMatch(current_modifications, ArgLayerName(args))
       IN IF i = 0
          THEN /\ appended' = <<"user", "not_found">>
               /\ UNCHANGED <<current_modifications, selected_template_details>>
          ELSE LET m == UpdateMod(current_modifications[i], args)
               IN /\ current_modifications' =
                        [current_modifications EXCEPT ![i] = m]
                  /\ selected_template_details' =
                        IF modsAliased
                        THEN [selected_template_details EXCEPT
                                !.available_modifications[i] = m]
                        ELSE selected_template_details
                  /\ appended' = <<"user", "updated">>
    /\ sentPayload' = None
    /\ pollArg' = None
    /\ UNCHANGED <<app, ownSelections, pc, formVars, histVars, modsAliased, download_image,
                   download_buttons, picker>>

\* process_prompt when the language model answers with text, or not at all.
GeminiText ==
    /\ app = "chat"
    /\ \E m \in {"assistant_text", "not_responding"} : appended' = <<"user", m>>
    /\ sentPayload' = None
    /\ pollArg' = None
    /\ UNCHANGED <<app, ownSelections, pc, formVars, histVars, selected_template_details,
                   current_modifications, modsAliased, download_image,
                   download_buttons, picker>>

\* A clean_mod that copies the dict as it is.
CleanModKeepsNull(mod) == [k \in ModKeys |-> mod[k]]

\* clean_mod = {key: value for key, value in mod.items() if value is not None}
CleanMod(mod) == [k \in ModKeys |-> IF mod[k] = Null THEN Absent ELSE mod[k]]

\* handle_image_generation; create_image and poll_for_image by their results:
\* a job or none, its finished image or none. The image of job n is named
\* generated_n.png.
HandleImageGeneration ==
    /\ app = "chat"
    /\ IF selected_template_details = None
       THEN /\ appended' = <<"user", "please_choose">>
            /\ sentPayload' = None
            /\ pollArg' = None
            /\ UNCHANGED <<submitCalls, createRequests, jobsCreated, download_image,
                           download_buttons>>
       ELSE /\ submitCalls < MaxSubmits
            /\ LET final_modifications ==
                     [i \in 1..Len(current_modifications) |->
                        CleanMod(current_modifications[i])]
               IN sentPayload' = [template |-> selected_template_details.uid,
                                  modifications |-> final_modifications]
            /\ submitCalls' = submitCalls + 1
            /\ createRequests' = createRequests + 1
            /\ \E created \in BOOLEAN, rendered \in BOOLEAN, fetched \in BOOLEAN :
                IF ~created
                THEN /\ appended' = <<"user", "generating", "failed_start">>
                     /\ pollArg' = None
                     /\ UNCHANGED <<jobsCreated, download_image, download_buttons>>
                ELSE /\ jobsCreated' = jobsCreated + 1
                     /\ pollArg' = [uid |-> jobsCreated + 1]
                     /\ IF ~rendered
                        THEN /\ appended' = <<"user", "generating", "failed_image">>
                             /\ UNCHANGED <<download_image, download_buttons>>
                        ELSE IF fetched
                        THEN /\ download_image' = [bytes |-> jobsCreated + 1,
                                                   name |-> jobsCreated + 1]
                             /\ download_buttons' =
                                    download_buttons \cup {jobsCreated + 1}
                             /\ appended' = <<"user", "generating", "image",
                                              "DOWNLOAD_BUTTON">>
                        ELSE /\ appended' = <<"user", "generating", "image",
                                              "no_download">>
                             /\ UNCHANGED <<download_image, download_buttons>>
    /\ UNCHANGED <<app, ownSelections, pc, formVars, lastArgs, dupSubmit, terminalJobs, failures,
                   selected_template_details, current_modifications, modsAliased,
                   picker>>

\* main, the message loop: what a DOWNLOAD_BUTTON message (here the one of
\* image uid) is drawn with.
RenderDownloadButton(uid) == download_image

Init ==
    /\ app \in {"form", "chat"}
    /\ pc = "idle"
    /\ templates_cache = "empty"
    /\ analysis_cache = NoEntry
    /\ selected_template_id = Null
    /\ template_data = None
    /\ analysis_result = None
    /\ modifications = << >>
    /\ generation_response = None
    /\ image_uid = 0
    /\ fetches = 0
    /\ sleeps = 0
    /\ final_image_url = Null
    /\ shown = {}
    /\ submitCalls = 0
    /\ createRequests = 0
    /\ jobsCreated = 0
    /\ sentPayload = None
    /\ lastArgs = None
    /\ dupSubmit = FALSE
    /\ genOutcome = "none"
    /\ firstEnd = NoEnd
    /\ completedSeen = FALSE
    /\ terminalJobs = {}
    /\ failures = {}
    /\ ownSelections = {}
    /\ selected_template_details = None
    /\ current_modifications = << >>
    /\ modsAliased = FALSE
    /\ download_image = None
    /\ download_buttons = {}
    /\ picker = FALSE
    /\ pollArg = None
    /\ appended = << >>

Select == \E t \in TemplateIds : RunSelect(t)

PeerSelect == \E u \in TemplateIds : PeerRun(u)

PickTemplate == \E t \in TemplateIds : HandleTemplateSelection(t)

UpdateLayer == \E args \in FunctionCallArgs : HandleGeminiFunctionCall(args)

Next ==
    \/ ExpireCache
    \/ Select
    \/ RunSubmit
    \/ Generate
    \/ PollFetch
    \/ PollGiveUp
    \/ ShowResult
    \/ EndRun
    \/ ChooseTemplate
    \/ PickTemplate
    \/ UpdateLayer
    \/ GeminiText
    \/ HandleImageGeneration

Spec == Init /\ [][Next]_vars

\* The session together with the other sessions the server process serves.
TwoSessionsNext == Next \/ PeerSelect

TwoSessionsSpec == Init /\ [][TwoSessionsNext]_vars

(***************************************************************************)
(* Properties                                                              *)
(***************************************************************************)

\* A poll call has returned and its caller has not yet used the result.
Polled == app = "form" /\ pc = "polled"

\* The script run that polled is over and its page is drawn.
PolledAndDrawn == app = "form" /\ pc = "done" /\ fetches > 0

\* C1: poll_for_image_completion returns an image URL if and only if one of its
\* (at most MaxAttempts) status fetches reported `completed`, the URL is the one
\* of that response, and the caller draws the banner exactly in that case.
C1_ArtifactIffCompleted ==
    /\ fetches <= MaxAttempts
    /\ Polled => /\ (final_image_url # Null) <=> completedSeen
                 /\ completedSeen => final_image_url = firstEnd.url
    /\ PolledAndDrawn => (("image" \in shown) <=> completedSeen)

\* C1 witness: the 20th and last fetch reported `completed` and the banner is
\* drawn.
C1_Witness ==
    /\ PolledAndDrawn
    /\ fetches = MaxAttempts
    /\ completedSeen
    /\ "image" \in shown

\* C2: once `completed` or `failed` has been observed for a job, no step issues
\* another status fetch for that job.
C2_NoFetchAfterTerminal ==
    [][fetches' = fetches + 1 => image_uid \notin terminalJobs]_vars

\* C2 witness: a terminal status ended a poll that had attempts left.
C2_Witness ==
    /\ Polled
    /\ image_uid \in terminalJobs
    /\ fetches < MaxAttempts

\* C3: when the first k-1 status responses are not terminal and the k-th says
\* `completed`, exactly k fetches are made and the URL of the k-th response is
\* returned.
C3_CompletedAtK ==
    Polled /\ firstEnd.kind = "completed" =>
        /\ firstEnd.at \in 1..MaxAttempts
        /\ fetches = firstEnd.at
        /\ sleeps = firstEnd.at - 1
        /\ final_image_url = firstEnd.url

\* C3 witness: pending, pending, completed: three fetches, the third URL.
C3_Witness ==
    /\ Polled
    /\ firstEnd = [at |-> 3, kind |-> "completed", url |-> "png_b"]
    /\ fetches = 3
    /\ final_image_url = "png_b"

\* C4: when all MaxAttempts status fetches succeed with a status that is not
\* terminal, exactly MaxAttempts fetches are made, the poll gives up with the
\* "taking longer" warning and no result, and there is never a fetch numbered
\* MaxAttempts + 1.
C4_ExhaustedAfterMaxAttempts ==
    /\ fetches <= MaxAttempts
    /\ Polled /\ firstEnd.at = 0 =>
        /\ fetches = MaxAttempts
        /\ final_image_url = Null
        /\ "warn_longer" \in shown
        /\ [exit |-> "exhausted", value |-> Null, notice |-> {"warn_longer"}]
                \in failures

\* C4 witness: twenty non-terminal responses, then the poll gave up.
C4_Witness ==
    /\ Polled
    /\ firstEnd.at = 0
    /\ fetches = MaxAttempts
    /\ "warn_longer" \in shown

\* C5: when the first k-1 status responses are not terminal and the k-th says
\* `failed`, the poll fails after exactly k fetches and does not use the
\* attempts that remain.
C5_FailedAtK ==
    Polled /\ firstEnd.kind = "failed" =>
        /\ firstEnd.at \in 1..MaxAttempts
        /\ fetches = firstEnd.at
        /\ final_image_url = Null
        /\ "err_failed" \in shown
        /\ "warn_longer" \notin shown

\* C5 witness: pending, failed: two fetches, eighteen attempts unused.
C5_Witness ==
    /\ Polled
    /\ firstEnd.kind = "failed"
    /\ firstEnd.at = 2
    /\ fetches = 2
    /\ "err_failed" \in shown

\* C6: when the k-th status fetch raises a transport error after k-1 responses
\* that are not terminal, the poll aborts at once: k fetches were made, none
\* follows, the result is a failure.
C6_TransportErrorAtK ==
    Polled /\ firstEnd.kind = "transport" =>
        /\ firstEnd.at \in 1..MaxAttempts
        /\ fetches = firstEnd.at
        /\ final_image_url = Null
        /\ "err_polling" \in shown
        /\ "warn_longer" \notin shown

\* C6 witness: the second fetch raised: two fetches were made.
C6_Witness ==
    /\ Polled
    /\ firstEnd.kind = "transport"
    /\ firstEnd.at = 2
    /\ fetches = 2
    /\ "err_polling" \in shown

\* The failure kinds of the specification: RenderFailedError for a failure the
\* provider reports, RenderTimeoutError for exhaustion and a transport abort.
FailureType(exit) ==
    IF exit = "failed" THEN "RenderFailedError" ELSE "RenderTimeoutError"

C8_OneRequestPerSubmit ==
    /\ createRequests = submitCalls
    /\ jobsCreated <= createRequests
    /\ app = "form" /\ pc = "poll" => image_uid = jobsCreated

\* C8 witness: the form submitted the same payload twice and two jobs exist.
C8_Witness ==
    /\ app = "form"
    /\ dupSubmit
    /\ submitCalls = 2
    /\ createRequests = 2
    /\ jobsCreated = 2

\* C9: no modification of a list passed to the job-creation call has a key
\* whose value is null.
C9_NoNullInPayload ==
    sentPayload # None =>
        \A i \in 1..Len(sentPayload.modifications) :
            \A k \in ModKeys : sentPayload.modifications[i][k] # Null

\* C9 witness: the chat sent a layer whose `text` was set by an update and
\* whose null `color` was dropped.
C9_Witness ==
    /\ app = "chat"
    /\ sentPayload # None
    /\ \E i \in 1..Len(current_modifications) :
        /\ current_modifications[i].text = "Hi"
        /\ current_modifications[i].color = Null
        /\ sentPayload.modifications[i].text = "Hi"
        /\ sentPayload.modifications[i].color = Absent

\* C10 as stated: after a network failure, a non-2xx answer or a 2xx answer
\* without uid, the submission has failed as a handled failure (the error
\* message of generate_bannerbear_image, no uncaught exception), and polling
\* has not started.
C10_SubmissionErrorHandled ==
    app = "form" /\ genOutcome \in {"network", "http_error", "no_uid", "empty_body"} =>
        /\ "err_generate" \in shown
        /\ "exception_KeyError" \notin shown
        /\ pc # "poll"

\* A key of a modification dict that is there and is not null.
HasValue(v) == v # Null /\ v # Absent

\* C11 as stated: no modification of a submitted list carries both a `text`
\* and an `image_url` value.
C11_AtMostOneValueKind ==
    sentPayload # None =>
        \A i \in 1..Len(sentPayload.modifications) :
            ~ /\ HasValue(sentPayload.modifications[i].text)
              /\ HasValue(sentPayload.modifications[i].image_url)

\* The names of the layers that are neither text nor image layers.
OtherLayerNames ==
    {l.name : l \in {x \in UNION {Range(TemplateLayers(t)) : t \in TemplateIds} :
                        x.kind = "other"}}

\* C12 as stated: a layer of kind "other" never gets a `text` or `image_url`
\* value in the session's modifications, and none is submitted for it.
C12_OtherNotEditable ==
    /\ \A i \in 1..Len(current_modifications) :
            current_modifications[i].name \in OtherLayerNames =>
                /\ ~HasValue(current_modifications[i].text)
                /\ ~HasValue(current_modifications[i].image_url)
    /\ app = "chat" /\ sentPayload # None =>
        \A i \in 1..Len(sentPayload.modifications) :
            sentPayload.modifications[i].name \in OtherLayerNames =>
                /\ ~HasValue(sentPayload.modifications[i].text)
                /\ ~HasValue(sentPayload.modifications[i].image_url)

\* No dict of the list has this name.
NoLayerNamed(mods, layer_name) ==
    \A i \in 1..Len(mods) : mods[i].name # layer_name

\* C13: an update call whose layer name (missing name included) matches no
\* dict of current_modifications leaves current_modifications and the template
\* details as they were and appends the "couldn't find a layer" message, never
\* the "Updated" one; so it is too while no template is selected.
C13_UnknownLayerRejected ==
    [][app = "chat" =>
        \A args \in FunctionCallArgs :
          /\ HandleGeminiFunctionCall(args)
          /\ NoLayerNamed(current_modifications, ArgLayerName(args))
          => /\ current_modifications' = current_modifications
             /\ selected_template_details' = selected_template_details
             /\ appended' = <<"user", "not_found">>]_vars

\* C13 witness: a template is loaded, its title was edited before, and the
\* last update named a layer that does not exist: the edit is still there.
C13_Witness ==
    /\ app = "chat"
    /\ appended = <<"user", "not_found">>
    /\ selected_template_details # None
    /\ Len(current_modifications) = 2
    /\ current_modifications[1].text = "Hi"

\* C14 as stated: no job-creation request carries an empty modifications list.
C14_NoEmptySubmission ==
    sentPayload # None => Len(sentPayload.modifications) > 0

\* The polling loop is not stopped from outside: while a poll call is under
\* way its next step is eventually taken.
FairSpec == Spec /\ WF_vars(PollFetch) /\ WF_vars(PollGiveUp)

\* The exit a finished poll call took.
PollExit == IF firstEnd.at = 0 THEN "exhausted" ELSE firstEnd.kind

\* C15: whatever the status responses and transport errors, a poll call makes
\* at most MaxAttempts fetches; while it runs a next step is always possible
\* and every step either ends the call or is one more fetch; it ends, and it
\* ends through `completed`, `failed`, a transport abort, or exhaustion after
\* the MaxAttempts-th fetch.
C15_PollTerminates ==
    /\ [](fetches <= MaxAttempts)
    /\ [](app = "form" /\ pc = "poll" => ENABLED (PollFetch \/ PollGiveUp))
    /\ [][app = "form" /\ pc = "poll" =>
            \/ pc' = "polled"
            \/ pc' = "poll" /\ fetches' = fetches + 1]_vars
    /\ [](Polled =>
            /\ PollExit \in {"completed", "failed", "transport", "exhausted"}
            /\ PollExit = "exhausted" => fetches = MaxAttempts
            /\ PollExit # "exhausted" => fetches = firstEnd.at)
    /\ (app = "form" /\ pc = "poll") ~> Polled

\* C15 witness: a poll call that went through all its attempts has ended.
C15_Witness ==
    /\ Polled
    /\ PollExit = "exhausted"
    /\ fetches = MaxAttempts
    /\ sleeps = MaxAttempts

\* C16 as stated: a finished poll call has slept once less than it has
\* fetched.
C16_SleepsOnlyBetweenAttempts ==
    Polled => sleeps = fetches - 1

\* Every value a detail fetch can return.
FetchableDetails ==
    {get_template_details(t, answer) : t \in TemplateIds, answer \in DetailAnswers}

\* C17 as stated: the template details the session holds are a value a detail
\* fetch returned, unchanged by updates and generations.
C17_DetailsReadOnly ==
    app = "chat" /\ selected_template_details # None =>
        selected_template_details \in FetchableDetails

\* C18: no step of generate_bannerbear_image or poll_for_image_completion,
\* whatever its outcome, changes selected_template_id, template_data or
\* analysis_result.
C18_CoreKeepsSessionState ==
    [][app = "form" /\ pc \in {"generate", "poll"} =>
            /\ selected_template_id' = selected_template_id
            /\ template_data' = template_data
            /\ analysis_result' = analysis_result]_vars

\* C18 witness: a job was created and its poll ended with a failure; the
\* session still holds its template, details and analysis.
C18_Witness ==
    /\ Polled
    /\ genOutcome = "ok"
    /\ firstEnd.kind = "failed"
    /\ selected_template_id = "t2"
    /\ template_data = TemplateDetails("t2")
    /\ analysis_result = Analysis("t2")

\* C20 as stated: when the form app submits a job, the analysis behind the
\* form's fields is the analysis of the template whose id is sent, and
\* template_data holds the details of that template.
C20_AnalysisOfSubmittedTemplate ==
    app = "form" /\ sentPayload # None =>
        /\ sentPayload.template = selected_template_id
        /\ analysis_result = Analysis(sentPayload.template)
        /\ template_data = TemplateDetails(sentPayload.template)

\* C19 as stated, for the field analysis: the analysis a session holds is the
\* analysis of a template this session itself has selected; what another
\* session lists, selects or fails to fetch does not show in it.
C19_SessionsIsolated ==
    app = "form" /\ analysis_result # None =>
        \E t \in ownSelections : analysis_result = Analysis(t)

\* The names of a list of layers or of modifications, in order.
LayerNames(seq) == [i \in 1..Len(seq) |-> seq[i].name]

\* C21 as stated: in the chat app the layer names of current_modifications
\* are the layer names of the selected template, and a job-creation request
\* carries the modifications of the template whose uid it carries.
C21_ModificationsOfSelectedTemplate ==
    /\ app = "chat" /\ selected_template_details # None =>
        LayerNames(current_modifications) =
            LayerNames(TemplateLayers(selected_template_details.uid))
    /\ app = "chat" /\ sentPayload # None =>
        LayerNames(sentPayload.modifications) =
            LayerNames(TemplateLayers(sentPayload.template))

\* C22: within one generate action at most one job-creation request is sent;
\* a status fetch (form) or a poll_for_image call (chat) happens only after
\* the creation succeeded and is for the uid that creation returned; after a
\* failed creation there is none.
C22_PollOnlyCreatedJob ==
    /\ [](app = "form" /\ (fetches > 0 \/ pc \in {"poll", "polled"}) =>
            /\ genOutcome = "ok"
            /\ generation_response.uid = image_uid
            /\ image_uid = jobsCreated)
    /\ [](app = "form" /\ genOutcome \notin {"none", "ok"} => fetches = 0)
    /\ [](app = "chat" /\ pollArg # None =>
            /\ pollArg.uid = jobsCreated
            /\ "failed_start" \notin Range(appended))
    /\ [](app = "chat" /\ "failed_start" \in Range(appended) => pollArg = None)
    /\ [][createRequests' # createRequests =>
            /\ createRequests' = createRequests + 1
            /\ app = "form" => sentPayload = None]_vars

\* C22 witness: the second job of a form session is being polled: three
\* fetches so far, all for the uid its creation returned.
C22_Witness ==
    /\ app = "form"
    /\ pc = "poll"
    /\ fetches = 3
    /\ createRequests = 2
    /\ generation_response.uid = 2
    /\ image_uid = 2

\* C23 as stated: when an update call appends the "Updated" confirmation, the
\* first modification with the call's layer name now holds a new value the
\* call carried, as its text or as its image_url.
C23_UpdatedOnlyWhenChanged ==
    [][app = "chat" =>
        \A args \in FunctionCallArgs :
          /\ HandleGeminiFunctionCall(args)
          /\ appended' = <<"user", "updated">>
          => \E i \in 1..Len(current_modifications') :
                /\ current_modifications'[i].name = ArgLayerName(args)
                /\ \/ /\ args.new_text # Absent
                      /\ current_modifications'[i].text = args.new_text
                   \/ /\ args.new_image_url # Absent
                      /\ current_modifications'[i].image_url = args.new_image_url]_vars

\* The indices at which the list of modifications differs after the step.
ChangedMods ==
    {i \in 1..Len(current_modifications) :
        current_modifications'[i] # current_modifications[i]}

\* C24 as stated: an update call changes at most one modification, the first
\* with the call's layer name, and of it only `text` or only `image_url`; it
\* leaves the selected template's details and download_image as they were;
\* and no chat step other than a successful template selection changes the
\* length of the list or more than one of its entries, so earlier values stay.
C24_UpdateChangesOneField ==
    [][app = "chat" =>
        /\ appended' # <<"user", "success_loaded">> =>
            /\ Len(current_modifications') = Len(current_modifications)
            /\ Cardinality(ChangedMods) <= 1
        /\ \A args \in FunctionCallArgs :
            HandleGeminiFunctionCall(args) =>
                /\ \A i \in ChangedMods :
                    /\ current_modifications[i].name = ArgLayerName(args)
                    /\ \A j \in 1..(i-1) :
                            current_modifications[j].name # ArgLayerName(args)
                    /\ Cardinality({k \in ModKeys :
                            current_modifications'[i][k] #
                                current_modifications[i][k]}) = 1
                    /\ current_modifications'[i].name = current_modifications[i].name
                    /\ current_modifications'[i].color = current_modifications[i].color
                /\ selected_template_details' = selected_template_details
                /\ download_image' = download_image]_vars

\* C25 as stated: every DOWNLOAD_BUTTON message of the history is drawn with
\* the bytes and the file name of the image announced just before it.
C25_ButtonServesOwnImage ==
    app = "chat" =>
        \A uid \in download_buttons :
            RenderDownloadButton(uid) = [bytes |-> uid, name |-> uid]

====
